---- MODULE Spec2Model ----
(***************************************************************************)
(* The input pipeline of im2txt/train_utils/inputs.py as a state machine:  *)
(* graph construction (get_images_and_captions calling                     *)
(* prefetch_input_data and batch_with_dynamic_pad) followed by the running *)
(* queue runners: the shard-name producer, the reader threads, the         *)
(* preprocessing workers and the batch dequeue.                            *)
(***************************************************************************)
EXTENDS Integers, Sequences, FiniteSets, Bags, TLC

\* ------------------------------------------------------------------ bounds
MaxFiles == 2          \* shard files the glob can match
MaxRecords == 2        \* records held by one shard
MaxCaptionLen == 3     \* longest caption / flip caption of a record
MaxReaders == 2        \* FLAGS.num_input_reader_threads
MaxWorkers == 2        \* FLAGS.num_preprocess_threads
MaxBatchSize == 2      \* FLAGS.batch_size
MaxEpochs == 2         \* the pass counter of the shard producer saturates here
MaxReads == 4          \* records read in a run whose length is limited
MaxSeqLen == 2         \* longest padded target sequence
MaxVocab == 2          \* FLAGS.vocab_size, and the longest attribute mask

\* ------------------------------------------------------- program constants
TrainShardCapacity == 16    \* string_input_producer(..., capacity=16)
EvalShardCapacity == 1      \* string_input_producer(..., capacity=1)
TrainCapacityBatches == 100 \* capacity = min_queue_examples + 100 * batch_size
EvalCapacityBatches == 3    \* capacity = values_per_shard + 3 * batch_size

VARIABLES
  FLAGS,          \* the flag values read by get_images_and_captions
  is_training,    \* the argument of get_images_and_captions
  shards,         \* the files matching FLAGS.input_file_pattern, each a sequence of records
  pc,             \* position in graph construction, then "running" / "failed"
  graph,          \* the queues and ops created so far
  data_files,     \* prefetch_input_data: the globbed file list
  filename_queue, \* the shard-name queue of string_input_producer
  pending,        \* shard names of the current pass not yet in filename_queue
  epochs,         \* passes over data_files started by the producer (saturating)
  reader,         \* the shared reader: the file it is in and the records read from it
  value,          \* per reader thread: the record read and not yet enqueued
  values_queue,   \* the record buffer (RandomShuffleQueue: a bag, FIFOQueue: a sequence)
  held,           \* per worker: the example built and not yet in the batch queue
  batch_queue,    \* the padding FIFO queue of batch_join
  batch,          \* the last batch dequeued by the training loop
  batch_rows,     \* the examples that batch was built from
  delivered,      \* evaluation: records dequeued from values_queue so far, modulo the stream period
  budget,         \* records the readers may still read in the observed run; -1: no limit
  tally,          \* in a run of limited length: the records pushed, taken and emitted so far
  targets         \* the target deriver: its arguments and, once applied, its result

vars == <<FLAGS, is_training, shards, pc, graph, data_files, filename_queue,
          pending, epochs, reader, value, values_queue, held, batch_queue,
          batch, batch_rows, delivered, budget, tally, targets>>

\* ---------------------------------------------------------------- helpers
Range(s) == {s[i] : i \in 1..Len(s)}

Max(a, b) == IF a >= b THEN a ELSE b

RECURSIVE SumSeq(_)
SumSeq(s) == IF s = <<>> THEN 0 ELSE Head(s) + SumSeq(Tail(s))

RECURSIVE MaxLenOf(_)
MaxLenOf(ss) == IF ss = <<>> THEN 0 ELSE Max(Len(Head(ss)), MaxLenOf(Tail(ss)))

RECURSIVE Flatten(_)
Flatten(ss) == IF ss = <<>> THEN <<>> ELSE Head(ss) \o Flatten(Tail(ss))

\* Every ordering of the list s (its elements are distinct).
Orderings(s) ==
  {p \in [1..Len(s) -> Range(s)] : \A i, j \in 1..Len(s) : i # j => p[i] # p[j]}

\* A caption of length L: the token ids b+1, ..., b+L.
Ramp(b, L) == [i \in 1..L |-> b + i]

\* A serialized SequenceExample: the image bytes (named by file and position)
\* and the two integer feature lists.
Record(f, p, L, FL) ==
  [image |-> <<f, p>>, caption |-> Ramp(0, L), flip_caption |-> Ramp(MaxCaptionLen, FL)]

\* ------------------------------------------------- parse_sequence_example
\* The decoded fields of a serialized record; flip_caption only when the
\* flip-caption feature name is supplied (<<>> stands for Python's None).
parse_sequence_example(serialized, with_flip) ==
  [encoded_image |-> serialized.image,
   caption |-> serialized.caption,
   flip_caption |-> IF with_flip THEN <<serialized.flip_caption>> ELSE <<>>]

\* simple_process_image: the external collaborator, a function of the
\* encoded image and the flip argument.
simple_process_image(encoded_image, flip) == [src |-> encoded_image, flipped |-> flip]

\* ------------------------------------------------- prefetch_input_data
MinQueueExamples == FLAGS.values_per_input_shard * FLAGS.input_queue_capacity_factor

Capacity ==
  IF is_training
    THEN MinQueueExamples + TrainCapacityBatches * FLAGS.batch_size
    ELSE FLAGS.values_per_input_shard + EvalCapacityBatches * FLAGS.batch_size

\* min_after_dequeue of the RandomShuffleQueue; a FIFOQueue has no floor.
MinAfterDequeue == IF is_training THEN MinQueueExamples ELSE 0

ShardCapacity == IF is_training THEN TrainShardCapacity ELSE EvalShardCapacity

\* A producer that takes the empty list.
StringInputProducerAccepts_Any(files) == TRUE

\* string_input_producer raises ValueError on an empty Python list.
StringInputProducerAccepts(files) == files # <<>>

\* shuffle=True in evaluation as well.
ShardPasses_Shuffled(files) == Orderings(files)

\* One pass of the shard producer: shuffled in training, as globbed in evaluation.
ShardPasses(files) == IF is_training THEN Orderings(files) ELSE {files}

\* The record buffer. RandomShuffleQueue keeps no order (a bag) and hands out
\* any element; FIFOQueue is a sequence and hands out its head.
EmptyQueue == IF is_training THEN EmptyBag ELSE <<>>

QSize(q) == IF is_training THEN BagCardinality(q) ELSE Len(q)

\* A buffer that puts the new record in front.
QEnqueue_Front(q, v) == IF is_training THEN q (+) SetToBag({v}) ELSE <<v>> \o q

QEnqueue(q, v) == IF is_training THEN q (+) SetToBag({v}) ELSE Append(q, v)

\* An enqueue that lets one element too many in.
QCanEnqueue_OffByOne(q) == QSize(q) <= Capacity

\* An enqueue blocks while the queue holds capacity elements.
QCanEnqueue(q) == QSize(q) < Capacity

\* A shuffle queue without its floor.
QCanDequeue_NoFloor(q) == QSize(q) >= 1

\* A dequeue needs size - min_after_dequeue >= 1.
QCanDequeue(q) == QSize(q) - MinAfterDequeue >= 1

QChoices(q) == IF is_training THEN BagToSet(q) ELSE {Head(q)}

\* A dequeue that leaves the record in the buffer.
QRemove_Keep(q, v) == q

QRemove(q, v) == IF is_training THEN q (-) SetToBag({v}) ELSE Tail(q)

\* ------------------------------------------------- batch_with_dynamic_pad
\* tf.slice on a 1-D tensor: begin is 0-based, size -1 means "to the end";
\* the op fails when begin or begin+size lies outside the tensor.
SliceOk(t, begin, size) ==
  /\ begin >= 0 /\ begin <= Len(t)
  /\ size >= -1
  /\ size >= 0 => begin + size <= Len(t)

Slice(t, begin, size) ==
  IF size = -1 THEN SubSeq(t, begin + 1, Len(t)) ELSE SubSeq(t, begin + 1, begin + size)

\* tf.ones(shape): fails on a negative dimension.
OnesOk(n) == n >= 0

Ones(n) == [i \in 1..n |-> 1]

InputLength(caption) == Len(caption) - 1

\* The three ops of one enqueue all succeed.
SplitOk(caption) ==
  /\ SliceOk(caption, 0, InputLength(caption))
  /\ SliceOk(caption, 1, InputLength(caption))
  /\ OnesOk(InputLength(caption))

InputSeq(caption) == Slice(caption, 0, InputLength(caption))

\* The target sliced from position 0: no shift.
TargetSeq_NoShift(caption) == Slice(caption, 0, InputLength(caption))

TargetSeq(caption) == Slice(caption, 1, InputLength(caption))

Indicator(caption) == Ones(InputLength(caption))

\* One element of enqueue_list; the caption it was split from rides along.
EnqueueTuple(image, caption) ==
  [image |-> image, caption |-> caption,
   input_seq |-> InputSeq(caption),
   target_seq |-> TargetSeq(caption),
   indicator |-> Indicator(caption)]

\* Padding on the left: the zeros first, the values after them.
PadTo_Left(s, n) == [i \in 1..n |-> IF i <= n - Len(s) THEN 0 ELSE s[i - (n - Len(s))]]

\* dynamic_pad: zeros on the right up to length n.
PadTo(s, n) == [i \in 1..n |-> IF i <= Len(s) THEN s[i] ELSE 0]

\* Padding to the first row's length instead of the longest.
PaddedLength_First(rows) == Len(rows[1].input_seq)

PaddedLength(rows) == MaxLenOf([i \in 1..Len(rows) |-> rows[i].input_seq])

\* dequeue_many(batch_size) of the padding queue: every component of every
\* row padded to the longest row of the batch.
PadBatch(rows) ==
  [images |-> [i \in 1..Len(rows) |-> rows[i].image],
   input_seqs |-> [i \in 1..Len(rows) |-> PadTo(rows[i].input_seq, PaddedLength(rows))],
   target_seqs |-> [i \in 1..Len(rows) |-> PadTo(rows[i].target_seq,
                      MaxLenOf([j \in 1..Len(rows) |-> rows[j].target_seq]))],
   mask |-> [i \in 1..Len(rows) |-> PadTo(rows[i].indicator,
                      MaxLenOf([j \in 1..Len(rows) |-> rows[j].indicator]))]]

QueueCapacity == 2 * FLAGS.num_preprocess_threads * FLAGS.batch_size

Workers == 1..FLAGS.num_preprocess_threads

ReaderThreads == 1..FLAGS.num_input_reader_threads

\* The records of all shards in the order a single in-order pass reads them.
Stream == Flatten(shards)

\* The tally with the record ids of ids added under field, in a run of
\* limited length; a run without limit keeps no tally.
Count(field, ids) ==
  IF budget = -1 THEN tally
  ELSE [tally EXCEPT ![field] = @ (+) [id \in Range(ids) |->
                                        Cardinality({i \in 1..Len(ids) : ids[i] = id})]]

\* ------------------------------------------------------------ construction
\* prefetch_input_data: the glob and the empty check. tf.logging.fatal logs at
\* FATAL level; whether that also aborts the process depends on the logging
\* backend, so both outcomes are kept.
Glob ==
  /\ pc = "glob"
  /\ data_files' = [i \in 1..Len(shards) |-> i]
  /\ \/ pc' = "filename_queue"
     \/ /\ Len(shards) = 0
        /\ pc' = "fatal"
  /\ UNCHANGED <<FLAGS, is_training, shards, graph, filename_queue, pending, epochs,
                 reader, value, values_queue, held, batch_queue, batch, batch_rows,
                 delivered, budget, tally, targets>>

CreateFilenameQueue ==
  /\ pc = "filename_queue"
  /\ IF StringInputProducerAccepts(data_files)
       THEN /\ graph' = graph \cup {"filename_queue"}
            /\ pc' = "values_queue"
       ELSE /\ graph' = graph
            /\ pc' = "error"
  /\ UNCHANGED <<FLAGS, is_training, shards, data_files, filename_queue, pending,
                 epochs, reader, value, values_queue, held, batch_queue, batch,
                 batch_rows, delivered, budget, tally, targets>>

CreateValuesQueue ==
  /\ pc = "values_queue"
  /\ graph' = graph \cup {"values_queue"}
  /\ values_queue' = EmptyQueue
  /\ pc' = "enqueue_ops"
  /\ UNCHANGED <<FLAGS, is_training, shards, data_files, filename_queue, pending,
                 epochs, reader, value, held, batch_queue, batch, batch_rows,
                 delivered, budget, tally, targets>>

CreateEnqueueOps ==
  /\ pc = "enqueue_ops"
  /\ graph' = graph \cup {"enqueue_ops"}
  /\ value' = [t \in ReaderThreads |-> <<>>]
  /\ pc' = "assert"
  /\ UNCHANGED <<FLAGS, is_training, shards, data_files, filename_queue, pending,
                 epochs, reader, values_queue, held, batch_queue, batch, batch_rows,
                 delivered, budget, tally, targets>>

\* The assertion left out.
EvenWorkers_Unchecked == TRUE

\* An assertion that applies only when flip support is on.
EvenWorkers_FlipOnly == ~FLAGS.support_flip \/ FLAGS.num_preprocess_threads % 2 = 0

\* get_images_and_captions: assert FLAGS.num_preprocess_threads % 2 == 0
EvenWorkers == FLAGS.num_preprocess_threads % 2 = 0

AssertEven ==
  /\ pc = "assert"
  /\ pc' = IF EvenWorkers THEN "workers" ELSE "error"
  /\ UNCHANGED <<FLAGS, is_training, shards, graph, data_files, filename_queue,
                 pending, epochs, reader, value, values_queue, held, batch_queue,
                 batch, batch_rows, delivered, budget, tally, targets>>

CreateWorkers ==
  /\ pc = "workers"
  /\ graph' = graph \cup {"images_and_captions"}
  /\ held' = [k \in Workers |-> <<>>]
  /\ pc' = "batch_join"
  /\ UNCHANGED <<FLAGS, is_training, shards, data_files, filename_queue, pending,
                 epochs, reader, value, values_queue, batch_queue, batch, batch_rows,
                 delivered, budget, tally, targets>>

\* batch_with_dynamic_pad builds the batch queue; the graph is complete and
\* the registered queue runners start.
BatchJoin ==
  /\ pc = "batch_join"
  /\ graph' = graph \cup {"batch_and_pad"}
  /\ pc' = "running"
  /\ UNCHANGED <<FLAGS, is_training, shards, data_files, filename_queue, pending,
                 epochs, reader, value, values_queue, held, batch_queue, batch,
                 batch_rows, delivered, budget, tally, targets>>

\* ------------------------------------------------------------------ running
\* The shard producer starts a pass over data_files (num_epochs is not set).
ProducerPass ==
  /\ pc = "running"
  /\ pending = <<>>
  /\ pending' \in ShardPasses(data_files)
  /\ epochs' = IF epochs < MaxEpochs THEN epochs + 1 ELSE epochs
  /\ UNCHANGED <<FLAGS, is_training, shards, pc, graph, data_files, filename_queue,
                 reader, value, values_queue, held, batch_queue, batch, batch_rows,
                 delivered, budget, tally, targets>>

\* ... and enqueues its names one by one, blocking while the queue is full.
ProducerEnqueue ==
  /\ pc = "running"
  /\ pending # <<>>
  /\ Len(filename_queue) < ShardCapacity
  /\ filename_queue' = Append(filename_queue, Head(pending))
  /\ pending' = Tail(pending)
  /\ UNCHANGED <<FLAGS, is_training, shards, pc, graph, data_files, epochs, reader,
                 value, values_queue, held, batch_queue, batch, batch_rows, delivered, budget, tally, targets>>

\* reader.read(filename_queue) of reader thread t: the one shared reader takes
\* the next shard name when it has no file open, and returns the next record.
ReaderRead(t) ==
  /\ pc = "running"
  /\ value[t] = <<>>
  /\ budget # 0
  /\ budget' = IF budget > 0 THEN budget - 1 ELSE budget
  /\ LET f == IF reader.file = 0 THEN Head(filename_queue) ELSE reader.file
         p == IF reader.file = 0 THEN 1 ELSE reader.pos + 1
     IN /\ reader.file = 0 => filename_queue # <<>>
        /\ filename_queue' = IF reader.file = 0 THEN Tail(filename_queue) ELSE filename_queue
        /\ value' = [value EXCEPT ![t] = <<shards[f][p]>>]
        /\ reader' = IF p = Len(shards[f]) THEN [file |-> 0, pos |-> 0]
                                           ELSE [file |-> f, pos |-> p]
  /\ UNCHANGED <<FLAGS, is_training, shards, pc, graph, data_files, pending, epochs,
                 values_queue, held, batch_queue, batch, batch_rows, delivered,
                 tally, targets>>

\* values_queue.enqueue([value]) of reader thread t: blocks while the buffer is full.
ReaderEnqueue(t) ==
  /\ pc = "running"
  /\ value[t] # <<>>
  /\ QCanEnqueue(values_queue)
  /\ values_queue' = QEnqueue(values_queue, value[t][1])
  /\ value' = [value EXCEPT ![t] = <<>>]
  /\ tally' = Count("pushed", <<value[t][1].image>>)
  /\ UNCHANGED <<FLAGS, is_training, shards, pc, graph, data_files, filename_queue,
                 pending, epochs, reader, held, batch_queue, batch, batch_rows,
                 delivered, budget, targets>>

\* The flipped image paired with the unflipped caption.
ImageAndCaption_Mixed(serialized, draw) ==
  LET parsed == parse_sequence_example(serialized, TRUE)
  IN <<simple_process_image(parsed.encoded_image, draw), parsed.caption>>

\* The [image, caption] pair a worker builds from one dequeued record; draw is
\* TRUE when tf.random_uniform falls below 0.5.
ImageAndCaption(serialized, draw) ==
  IF FLAGS.support_flip
    THEN LET parsed == parse_sequence_example(serialized, TRUE)
             flip_image == simple_process_image(parsed.encoded_image, TRUE)
             image == simple_process_image(parsed.encoded_image, FALSE)
         IN IF draw THEN <<flip_image, parsed.flip_caption[1]>>
                    ELSE <<image, parsed.caption>>
    ELSE LET parsed == parse_sequence_example(serialized, FALSE)
         IN <<simple_process_image(parsed.encoded_image, FALSE), parsed.caption>>

Draws == IF FLAGS.support_flip THEN BOOLEAN ELSE {FALSE}

\* One run of worker k's enqueue op up to the batch queue: dequeue a record,
\* build the pair, split the caption. A failing op stops the pipeline.
WorkerDequeue(k) ==
  /\ pc = "running"
  /\ held[k] = <<>>
  /\ QCanDequeue(values_queue)
  /\ \E serialized \in QChoices(values_queue), draw \in Draws :
       LET pair == ImageAndCaption(serialized, draw)
       IN /\ values_queue' = QRemove(values_queue, serialized)
          /\ tally' = Count("taken", <<serialized.image>>)
          /\ delivered' = IF is_training THEN delivered
                          ELSE (delivered + 1) % Len(Stream)
          /\ IF SplitOk(pair[2])
               THEN /\ held' = [held EXCEPT ![k] = <<EnqueueTuple(pair[1], pair[2])>>]
                    /\ pc' = pc
               ELSE /\ held' = held
                    /\ pc' = "failed"
  /\ UNCHANGED <<FLAGS, is_training, shards, graph, data_files, filename_queue,
                 pending, epochs, reader, value, batch_queue, batch, batch_rows, budget,
                 targets>>

\* ... and the enqueue into the batch queue, blocking while it is full.
WorkerEnqueue(k) ==
  /\ pc = "running"
  /\ held[k] # <<>>
  /\ Len(batch_queue) < QueueCapacity
  /\ batch_queue' = Append(batch_queue, held[k][1])
  /\ held' = [held EXCEPT ![k] = <<>>]
  /\ UNCHANGED <<FLAGS, is_training, shards, pc, graph, data_files, filename_queue,
                 pending, epochs, reader, value, values_queue, batch, batch_rows,
                 delivered, budget, tally, targets>>

\* A batch queue that flushes whatever it holds, up to batch_size rows.
DequeueMany_Partial(q) ==
  IF Len(q) >= FLAGS.batch_size THEN {SubSeq(q, 1, FLAGS.batch_size)}
  ELSE IF Len(q) >= 1 THEN {q} ELSE {}

\* dequeue_many(batch_size): the first batch_size elements, once the queue
\* holds that many.
DequeueMany(q) ==
  IF Len(q) >= FLAGS.batch_size THEN {SubSeq(q, 1, FLAGS.batch_size)} ELSE {}

\* The consumer evaluates the batch_join outputs: dequeue_many(batch_size).
BatchDequeue ==
  /\ pc = "running"
  /\ \E rows \in DequeueMany(batch_queue) :
       /\ batch' = <<PadBatch(rows)>>
       /\ batch_rows' = rows
       /\ batch_queue' = SubSeq(batch_queue, Len(rows) + 1, Len(batch_queue))
       /\ tally' = Count("emitted", [i \in 1..Len(rows) |-> rows[i].image.src])
  /\ UNCHANGED <<FLAGS, is_training, shards, pc, graph, data_files, filename_queue,
                 pending, epochs, reader, value, values_queue, held, delivered, budget,
                 targets>>

Next ==
  \/ Glob
  \/ CreateFilenameQueue
  \/ CreateValuesQueue
  \/ CreateEnqueueOps
  \/ AssertEven
  \/ CreateWorkers
  \/ BatchJoin
  \/ ProducerPass
  \/ ProducerEnqueue
  \/ \E t \in ReaderThreads : ReaderRead(t)
  \/ \E t \in ReaderThreads : ReaderEnqueue(t)
  \/ \E k \in Workers : WorkerDequeue(k)
  \/ \E k \in Workers : WorkerEnqueue(k)
  \/ BatchDequeue

\* ------------------------------------------------------------------- inputs
Flags(bs, vps, factor, readers, workers, flip) ==
  [batch_size |-> bs, values_per_input_shard |-> vps,
   input_queue_capacity_factor |-> factor,
   num_input_reader_threads |-> readers,
   num_preprocess_threads |-> workers, support_flip |-> flip]

\* The state before get_images_and_captions is called, for one scenario
\* [training, flags, shards].
InitOf(scenarios) ==
  \E s \in scenarios :
    /\ FLAGS = s.flags
    /\ is_training = s.training
    /\ shards = s.shards
    /\ pc = "glob"
    /\ graph = {}
    /\ data_files = <<>>
    /\ filename_queue = <<>>
    /\ pending = <<>>
    /\ epochs = 0
    /\ reader = [file |-> 0, pos |-> 0]
    /\ value = <<>>
    /\ values_queue = <<>>
    /\ held = <<>>
    /\ batch_queue = <<>>
    /\ batch = <<>>
    /\ batch_rows = <<>>
    /\ delivered = 0
    /\ budget = s.reads
    /\ tally = [pushed |-> EmptyBag, taken |-> EmptyBag, emitted |-> EmptyBag]
    /\ targets = <<>>

\* A shard of n records whose captions alternate between lengths a and b, the
\* flip captions between b and a.
Shard(f, n, a, b) ==
  [p \in 1..n |-> IF p % 2 = 1 THEN Record(f, p, a, b) ELSE Record(f, p, b, a)]

ShardSet(files, n, a, b) == [f \in 1..files |-> Shard(f, n, a, b)]

EvenCounts == {k \in 1..MaxWorkers : k % 2 = 0}

\* Captions of every length, batched alone and together, flipped or not. With
\* flip support a worker uses either caption of a record, so the two lengths
\* are taken in one order only.
CaptionScenarios ==
  {[training |-> FALSE,
    flags |-> Flags(bs, MaxRecords, 1, 1, k, c[1]),
    shards |-> ShardSet(1, MaxRecords, c[2], c[3]),
    reads |-> MaxBatchSize + 1] :
     bs \in 1..MaxBatchSize, k \in EvenCounts,
     c \in {x \in BOOLEAN \X (0..MaxCaptionLen) \X (0..MaxCaptionLen) :
              x[1] => x[2] <= x[3]}}

\* Configurations that cannot be built: no matching file, or an odd worker count.
BadScenarios(training) ==
  {[training |-> training,
    flags |-> Flags(1, 1, 1, 1, c[1], flip),
    shards |-> ShardSet(c[2], 1, 2, 2),
    reads |-> MaxReads] :
     flip \in BOOLEAN,
     c \in {x \in (1..MaxWorkers) \X (0..MaxFiles) : x[2] = 0 \/ x[1] % 2 = 1}}

\* Evaluation over several shards with one reader thread, and over one shard
\* with several.
EvalScenarios ==
  {[training |-> FALSE,
    flags |-> Flags(1, n, 1, 1, k, FALSE),
    shards |-> ShardSet(files, n, 2, 2),
    reads |-> MaxReads] :
     files \in 1..MaxFiles, n \in 1..MaxRecords, k \in EvenCounts}
  \cup
  {[training |-> FALSE,
    flags |-> Flags(1, MaxRecords, 1, r, k, FALSE),
    shards |-> ShardSet(1, MaxRecords, 2, 2),
    reads |-> MaxReads] :
     r \in 2..MaxReaders, k \in EvenCounts}

\* Training over two shards, to watch the shard producer reshuffle.
ShuffleScenarios ==
  {[training |-> TRUE,
    flags |-> Flags(1, 1, 1, 1, k, FALSE),
    shards |-> ShardSet(2, 1, 2, 2),
    reads |-> 1] :
     k \in EvenCounts}

\* Training over one shard of two records for a limited number of reads.
TrainLimitedScenarios ==
  {[training |-> TRUE,
    flags |-> Flags(1, 1, 1, r, k, FALSE),
    shards |-> ShardSet(1, 2, 2, 2),
    reads |-> MaxReads] :
     r \in 1..MaxReaders, k \in EvenCounts}

\* Training in the steady state: one shard of one record, read without limit
\* by one or by two reader threads, so that the record buffer runs from empty
\* to full.
TrainScenarios ==
  {[training |-> TRUE,
    flags |-> Flags(1, 1, 2, r, k, FALSE),
    shards |-> ShardSet(1, 1, 2, 2),
    reads |-> -1] :
     r \in {1, 2}, k \in EvenCounts}

Init ==
  InitOf(CaptionScenarios \cup EvalScenarios \cup ShuffleScenarios
           \cup TrainLimitedScenarios
           \cup BadScenarios(FALSE) \cup BadScenarios(TRUE))

Spec == Init /\ [][Next]_vars

\* Training without limit over one shard whose record has an empty caption.
EmptyCaptionScenarios ==
  {[training |-> TRUE,
    flags |-> Flags(1, 1, 1, 1, k, FALSE),
    shards |-> ShardSet(1, 1, 0, 0),
    reads |-> -1] :
     k \in EvenCounts}

\* The record buffer from empty to full, in both modes.
InitBuffer ==
  InitOf(TrainScenarios \cup EmptyCaptionScenarios \cup EvalScenarios
           \cup BadScenarios(TRUE) \cup BadScenarios(FALSE))

SpecBuffer == InitBuffer /\ [][Next]_vars

\* ---------------------------------------------------------- target deriver
\* A unique that keeps the repetitions of an id.
Unique_All(caption) == caption

\* tf.unique: the ids of a caption in the order of their first occurrence.
Unique(caption) ==
  LET first == {i \in 1..Len(caption) : \A j \in 1..(i - 1) : caption[j] # caption[i]}
      nth[n \in 0..Len(caption)] ==
        IF n = 0 THEN 0
        ELSE CHOOSE i \in first : i > nth[n - 1] /\ \A j \in first : j > nth[n - 1] => i <= j
  IN [n \in 1..Cardinality(first) |-> caption[nth[n]]]

\* tf.one_hot(ids, depth): one row per id, all zeros for an id outside 0..depth-1.
OneHot(ids, depth) ==
  [i \in 1..Len(ids) |-> [j \in 1..depth |-> IF ids[i] = j - 1 THEN 1 ELSE 0]]

\* tf.reduce_sum(rows, axis=0) of rows of the given width.
ReduceSum0(rows, width) ==
  [j \in 1..width |-> SumSeq([i \in 1..Len(rows) |-> rows[i][j]])]

caption_to_attributes_target(caption, mask) ==
  LET unique_ids == Unique(caption)
      summed == ReduceSum0(OneHot(unique_ids, Len(mask)), Len(mask))
  IN [j \in 1..Len(mask) |-> summed[j] * mask[j]]

get_attributes_target(target_seq, mask) ==
  [i \in 1..Len(target_seq) |-> caption_to_attributes_target(target_seq[i], mask)]

c2ml(caption) ==
  LET unique_ids == Unique(caption)
  IN ReduceSum0(OneHot(unique_ids, FLAGS.vocab_size), FLAGS.vocab_size)

caption_to_multi_labels(captions) ==
  [i \in 1..Len(captions) |-> c2ml(captions[i])]

\* The token ids of the target sequences: the pad id and a word id.
TokenIds == {0, 1}

\* Batches of padded target sequences: rows of one length over the token ids.
TargetSeqs ==
  UNION {[1..b -> [1..T -> TokenIds]] : b \in 1..MaxBatchSize, T \in 1..MaxSeqLen}

\* One-dimensional masks of zeros and ones.
Masks == UNION {[1..w -> {0, 1}] : w \in 1..MaxVocab}

\* A call of get_attributes_target.
GetAttributesTarget ==
  /\ targets = <<>>
  /\ \E target_seq \in TargetSeqs, mask \in Masks :
       targets' = <<[fn |-> "get_attributes_target", rows |-> target_seq, mask |-> mask,
                     result |-> get_attributes_target(target_seq, mask)]>>
  /\ UNCHANGED <<FLAGS, is_training, shards, pc, graph, data_files, filename_queue,
                 pending, epochs, reader, value, values_queue, held, batch_queue,
                 batch, batch_rows, delivered, budget, tally>>

\* A call of caption_to_multi_labels.
CaptionToMultiLabels ==
  /\ targets = <<>>
  /\ \E captions \in TargetSeqs :
       targets' = <<[fn |-> "caption_to_multi_labels", rows |-> captions, mask |-> <<>>,
                     result |-> caption_to_multi_labels(captions)]>>
  /\ UNCHANGED <<FLAGS, is_training, shards, pc, graph, data_files, filename_queue,
                 pending, epochs, reader, value, values_queue, held, batch_queue,
                 batch, batch_rows, delivered, budget, tally>>

NextTargets == GetAttributesTarget \/ CaptionToMultiLabels

\* The derivers are called on their own, outside the pipeline, with a
\* vocabulary size from the flags.
InitTargets ==
  /\ FLAGS \in [vocab_size : 1..MaxVocab]
  /\ is_training = FALSE
  /\ shards = <<>>
  /\ pc = "targets"
  /\ graph = {}
  /\ data_files = <<>>
  /\ filename_queue = <<>>
  /\ pending = <<>>
  /\ epochs = 0
  /\ reader = [file |-> 0, pos |-> 0]
  /\ value = <<>>
  /\ values_queue = <<>>
  /\ held = <<>>
  /\ batch_queue = <<>>
  /\ batch = <<>>
  /\ batch_rows = <<>>
  /\ delivered = 0
  /\ budget = 0
  /\ tally = [pushed |-> EmptyBag, taken |-> EmptyBag, emitted |-> EmptyBag]
  /\ targets = <<>>

SpecTargets == InitTargets /\ [][NextTargets]_vars

\* ------------------------------------------------------------------ claims
\* The examples between a worker and the training loop.
InFlight ==
  {held[k][1] : k \in {w \in DOMAIN held : held[w] # <<>>}}
    \cup Range(batch_queue) \cup Range(batch_rows)

BatchRows == IF batch = <<>> THEN {} ELSE 1..Len(batch_rows)

\* C1: a caption of length L >= 2 is split into input_seq = caption[0:L-1] and
\* target_seq = caption[1:L], and the mask of its padded row sums to L-1.
C1_SplitShiftsByOne ==
  /\ \A e \in InFlight :
       LET L == Len(e.caption)
       IN L >= 2 =>
            /\ e.input_seq = SubSeq(e.caption, 1, L - 1)
            /\ e.target_seq = SubSeq(e.caption, 2, L)
            /\ Len(e.input_seq) = Len(e.target_seq)
            /\ \A j \in 1..(L - 1) :
                 e.input_seq[j] = e.caption[j] /\ e.target_seq[j] = e.caption[j + 1]
  /\ \A i \in BatchRows :
       Len(batch_rows[i].caption) >= 2 =>
         SumSeq(batch[1].mask[i]) = Len(batch_rows[i].caption) - 1

\* A batch holding a caption of length >= 3 next to a shorter one of length >= 2.
C1_Witness ==
  /\ batch # <<>>
  /\ \E i, j \in BatchRows :
       /\ Len(batch_rows[i].caption) >= 3
       /\ Len(batch_rows[j].caption) >= 2
       /\ Len(batch_rows[j].caption) < Len(batch_rows[i].caption)

\* C2: in an emitted batch the three padded tensors are as wide as the largest
\* L-1 of the batch, and row i's mask is 1 below its own L-1 and 0 from there on.
C2_PaddedToBatchMax ==
  \A i \in BatchRows :
    LET lengths == {Len(batch_rows[r].caption) - 1 : r \in 1..Len(batch_rows)}
        width == CHOOSE w \in lengths : \A x \in lengths : x <= w
        own == Len(batch_rows[i].caption) - 1
    IN /\ Len(batch[1].input_seqs[i]) = width
       /\ Len(batch[1].target_seqs[i]) = width
       /\ Len(batch[1].mask[i]) = width
       /\ \A j \in 1..width : batch[1].mask[i][j] = IF j <= own THEN 1 ELSE 0

\* A batch whose rows have different lengths.
C2_Witness ==
  /\ batch # <<>>
  /\ \E i, j \in BatchRows :
       Len(batch_rows[i].caption) = 1 /\ Len(batch_rows[j].caption) = MaxCaptionLen

\* C3: a caption of length 0 or 1 is split without failure and its row reaches
\* the batch with an all-zero mask.
C3_ShortCaptionsPass ==
  /\ pc # "failed"
  /\ \A i \in BatchRows :
       Len(batch_rows[i].caption) <= 1 =>
         \A j \in 1..Len(batch[1].mask[i]) : batch[1].mask[i][j] = 0

\* The record an image was decoded from.
RecordOf(image) == shards[image.src[1]][image.src[2]]

\* The caption that belongs to an image: the flip caption for the flipped one.
CaptionOf(image) ==
  IF image.flipped THEN RecordOf(image).flip_caption ELSE RecordOf(image).caption

\* C4: with flip support every example pairs the flipped image with the flip
\* caption or the unflipped image with the caption of the same record, and row i
\* of all four batch tensors derives from that one example.
C4_FlipPairsStayTogether ==
  FLAGS.support_flip =>
    /\ \A e \in InFlight : e.caption = CaptionOf(e.image)
    /\ \A i \in BatchRows :
         LET c == CaptionOf(batch[1].images[i])
             L == Len(c)
             w == Len(batch[1].mask[i])
         IN /\ batch[1].input_seqs[i] = PadTo(SubSeq(c, 1, L - 1), w)
            /\ batch[1].target_seqs[i] = PadTo(SubSeq(c, 2, L), w)
            /\ batch[1].mask[i] = PadTo(Ones(L - 1), w)

\* A batch with a flipped and an unflipped row whose captions differ.
C4_Witness ==
  /\ FLAGS.support_flip
  /\ batch # <<>>
  /\ \E i, j \in BatchRows :
       /\ batch[1].images[i].flipped
       /\ ~batch[1].images[j].flipped
       /\ RecordOf(batch[1].images[i]).caption # RecordOf(batch[1].images[i]).flip_caption
       /\ Len(batch[1].input_seqs[i]) >= 2

\* Nothing has run: no shard name queued, no record read, dequeued or batched.
NothingRan ==
  /\ filename_queue = <<>> /\ pending = <<>> /\ epochs = 0
  /\ reader = [file |-> 0, pos |-> 0]
  /\ budget = MaxReads
  /\ \A t \in DOMAIN value : value[t] = <<>>
  /\ values_queue = <<>>
  /\ \A k \in DOMAIN held : held[k] = <<>>
  /\ batch_queue = <<>> /\ batch = <<>> /\ delivered = 0

\* C5: when the patterns match no file the call fails before anything is
\* created after the empty check, and the pipeline never runs.
C5_NoFilesFailsBeforeQueues ==
  (Len(shards) = 0) =>
    /\ pc \in {"glob", "filename_queue", "fatal", "error"}
    /\ graph = {}
    /\ NothingRan

\* The call has failed at the shard queue's construction.
C5_Witness == Len(shards) = 0 /\ pc = "error" /\ data_files = <<>>

\* C6: flip support with an odd worker count fails during construction, before
\* any shard is read, any record dequeued or any batch produced.
C6_OddWorkersFailAtConstruction ==
  (FLAGS.support_flip /\ FLAGS.num_preprocess_threads % 2 = 1) =>
    /\ pc \in {"glob", "filename_queue", "values_queue", "enqueue_ops", "assert",
               "fatal", "error"}
    /\ "images_and_captions" \notin graph
    /\ "batch_and_pad" \notin graph
    /\ NothingRan

\* The assertion has failed after prefetch_input_data returned.
C6_Witness ==
  /\ FLAGS.support_flip /\ FLAGS.num_preprocess_threads % 2 = 1
  /\ pc = "error" /\ "enqueue_ops" \in graph

\* The shard names s follow the globbed order cyclically.
InGlobOrder(s) ==
  \A i \in 1..Len(s) :
    /\ s[i] \in 1..Len(data_files)
    /\ i < Len(s) => s[i + 1] = (s[i] % Len(data_files)) + 1

BufferInStreamOrder ==
  \A i \in 1..Len(values_queue) :
    values_queue[i] = Stream[((delivered + i - 1) % Len(Stream)) + 1]

\* C8 as stated: in evaluation the records are delivered in the one fixed
\* order of the shard list, for every number of reader threads.
C8_EvalOrderFixed ==
  (~is_training /\ pc \in {"running", "failed"}) => BufferInStreamOrder

\* C8 as amended: ... with a single reader thread.
C8_EvalOrderFixedWithOneReader ==
  (~is_training /\ pc \in {"running", "failed"} /\ FLAGS.num_input_reader_threads = 1)
    => BufferInStreamOrder

\* One reader, several shards of several records, the stream wrapped and the
\* buffer holding records of two shards.
C8_Witness ==
  /\ ~is_training /\ pc = "running"
  /\ FLAGS.num_input_reader_threads = 1
  /\ Len(shards) >= 2
  /\ delivered >= 1
  /\ Len(values_queue) >= 2
  /\ values_queue[1].image[1] # values_queue[Len(values_queue)].image[1]

\* C9: in training a record is dequeued only from a buffer that holds at least
\* values_per_shard * capacity_factor records.
C9_DequeueOnlyAboveFloor ==
  [][(is_training /\ QSize(values_queue') < QSize(values_queue))
       => QSize(values_queue) >=
            FLAGS.values_per_input_shard * FLAGS.input_queue_capacity_factor]_vars

\* Training with a floor of at least 2: a worker has dequeued and the buffer
\* is back at the floor.
C9_Witness ==
  /\ is_training /\ pc = "running"
  /\ FLAGS.values_per_input_shard * FLAGS.input_queue_capacity_factor >= 2
  /\ QSize(values_queue) = FLAGS.values_per_input_shard * FLAGS.input_queue_capacity_factor
  /\ \E k \in DOMAIN held : held[k] # <<>>

\* C10: the record buffer never holds more than its capacity:
\* values_per_shard * capacity_factor + 100 * batch_size in training,
\* values_per_shard + 3 * batch_size in evaluation.
C10_BufferWithinCapacity ==
  QSize(values_queue) <=
    IF is_training
      THEN FLAGS.values_per_input_shard * FLAGS.input_queue_capacity_factor
             + 100 * FLAGS.batch_size
      ELSE FLAGS.values_per_input_shard + 3 * FLAGS.batch_size

\* Training: the buffer is full and every one of several readers is blocked
\* holding a record.
C10_Witness ==
  /\ is_training /\ pc = "running"
  /\ FLAGS.num_input_reader_threads >= 2
  /\ QSize(values_queue) =
       FLAGS.values_per_input_shard * FLAGS.input_queue_capacity_factor
         + 100 * FLAGS.batch_size
  /\ \A t \in DOMAIN value : value[t] # <<>>

\* The ids of the records the shards hold.
RecordIds == {Stream[i].image : i \in 1..Len(Stream)}

\* Records with this id in the record buffer.
QCount(id) ==
  IF is_training
    THEN CopiesIn(shards[id[1]][id[2]], values_queue)
    ELSE Cardinality({i \in 1..Len(values_queue) : values_queue[i].image = id})

\* Examples of this record held by a worker or waiting in the batch queue.
ExamplesOf(id) ==
  Cardinality({k \in DOMAIN held : held[k] # <<>> /\ held[k][1].image.src = id})
    + Cardinality({i \in 1..Len(batch_queue) : batch_queue[i].image.src = id})

\* C11: every record pushed into the buffer is taken at most once (the pushes of
\* a record are its dequeues plus its copies still buffered), and every record
\* taken has become exactly one example, held, queued for a batch or emitted.
C11_EachPushConsumedOnce ==
  budget # -1 =>
    \A id \in RecordIds :
      /\ CopiesIn(id, tally.pushed) = CopiesIn(id, tally.taken) + QCount(id)
      /\ pc = "running" =>
           CopiesIn(id, tally.taken) = ExamplesOf(id) + CopiesIn(id, tally.emitted)

\* Several workers have dequeued the same record, pushed more than once, and a
\* batch has been emitted, in training.
C11_Witness ==
  /\ pc = "running" /\ is_training
  /\ FLAGS.num_input_reader_threads >= 2
  /\ \A k \in DOMAIN held : held[k] # <<>>
  /\ \E id \in RecordIds :
       /\ CopiesIn(id, tally.pushed) >= 2
       /\ CopiesIn(id, tally.taken) >= 2
  /\ \E id \in RecordIds : CopiesIn(id, tally.emitted) >= 1

\* C12: a batch is emitted only when the batch queue holds batch_size examples;
\* the emitted batch has exactly batch_size rows in each of its tensors, and the
\* emit removes exactly those rows from the queue, so that no example is emitted
\* in a smaller batch or in two batches.
C12_WholeBatchesOnly ==
  [][Len(batch_queue') < Len(batch_queue) =>
       /\ Len(batch_queue) >= FLAGS.batch_size
       /\ Len(batch_rows') = FLAGS.batch_size
       /\ batch_queue = batch_rows' \o batch_queue'
       /\ batch' # <<>>
       /\ Len(batch'[1].images) = FLAGS.batch_size
       /\ Len(batch'[1].input_seqs) = FLAGS.batch_size
       /\ Len(batch'[1].target_seqs) = FLAGS.batch_size
       /\ Len(batch'[1].mask) = FLAGS.batch_size]_vars

\* A batch of several rows has been emitted and fewer than batch_size examples
\* wait in the queue with nothing left to read.
C12_Witness ==
  /\ batch # <<>>
  /\ FLAGS.batch_size >= 2
  /\ Len(batch_rows) = FLAGS.batch_size
  /\ Len(batch_queue) \in 1..(FLAGS.batch_size - 1)
  /\ budget = 0
  /\ \A k \in DOMAIN held : held[k] = <<>>

\* The derived vector of row i has this width, and holds at the position of each
\* id what expected(id) says for an id the row contains, zero for any other id.
DerivedAs(call, i, width, expected(_)) ==
  /\ Len(call.result[i]) = width
  /\ \A id \in 0..(width - 1) :
       call.result[i][id + 1] = IF id \in Range(call.rows[i]) THEN expected(id) ELSE 0

\* C13 as stated: both derivers give, for every row, a vector of width vocab_size
\* that is 1 at exactly the distinct token ids of the row and 0 elsewhere.
C13_MultiHotOverVocabulary ==
  targets # <<>> =>
    \A i \in 1..Len(targets[1].rows) :
      LET One(id) == 1
      IN DerivedAs(targets[1], i, FLAGS.vocab_size, One)

\* C13 amended: caption_to_multi_labels gives, for every row, a vector of width
\* vocab_size that is 1 at exactly the distinct token ids of the row that lie
\* below vocab_size (the pad id 0 included) and 0 elsewhere;
\* caption_to_attributes_target gives a vector as wide as mask that holds mask's
\* own entry at the distinct token ids of the row and 0 elsewhere.
C13_MultiHotLabelsMaskedAttributes ==
  targets # <<>> =>
    \A i \in 1..Len(targets[1].rows) :
      LET One(id) == 1
          Masked(id) == targets[1].mask[id + 1]
      IN IF targets[1].fn = "caption_to_multi_labels"
           THEN DerivedAs(targets[1], i, FLAGS.vocab_size, One)
           ELSE DerivedAs(targets[1], i, Len(targets[1].mask), Masked)

\* The attributes of a batch with a row that repeats a token and a padded row,
\* under a mask that is as wide as the vocabulary and drops the pad id.
C13_Witness ==
  /\ targets # <<>>
  /\ targets[1].fn = "get_attributes_target"
  /\ Len(targets[1].mask) = FLAGS.vocab_size
  /\ Len(targets[1].mask) >= 2
  /\ targets[1].mask[1] = 0 /\ targets[1].mask[2] = 1
  /\ \E i, j \in 1..Len(targets[1].rows) :
       /\ targets[1].rows[i] = <<1, 1>>
       /\ targets[1].rows[j] = <<1, 0>>

\* C14: in an emitted batch every row is padded on the right only: below the
\* row's own L-1 the input and target sequences hold the caption's values in
\* their order (the targets shifted by one) and the mask holds 1; from L-1 up to
\* the padded length the three tensors hold zero.
C14_PaddedOnTheRightOnly ==
  \A i \in BatchRows :
    LET caption == batch_rows[i].caption
        own == Len(caption) - 1
    IN /\ Len(batch[1].input_seqs[i]) >= own
       /\ \A j \in 1..Len(batch[1].input_seqs[i]) :
            IF j <= own
              THEN /\ batch[1].input_seqs[i][j] = caption[j]
                   /\ batch[1].target_seqs[i][j] = caption[j + 1]
                   /\ batch[1].mask[i][j] = 1
              ELSE /\ batch[1].input_seqs[i][j] = 0
                   /\ batch[1].target_seqs[i][j] = 0
                   /\ batch[1].mask[i][j] = 0

\* A batch with a row that holds both values of its caption and padding.
C14_Witness ==
  /\ batch # <<>>
  /\ \E i \in BatchRows :
       /\ Len(batch_rows[i].caption) >= 2
       /\ Len(batch[1].input_seqs[i]) > Len(batch_rows[i].caption) - 1
       /\ batch[1].input_seqs[i][1] # 0
       /\ batch[1].target_seqs[i][Len(batch[1].target_seqs[i])] = 0

\* A training run over at least one record with an even worker count, read
\* without limit, once its graph is built.
TrainingStarted ==
  /\ is_training
  /\ Len(Stream) >= 1
  /\ EvenWorkers
  /\ budget = -1
  /\ pc \notin {"glob", "filename_queue", "values_queue", "enqueue_ops", "assert",
                "workers", "batch_join"}

\* C15: a training pipeline over a non-empty shard set with an even worker count
\* never comes to a stop: it is running and one of its threads can take a step,
\* so that under fair scheduling the buffer passes its floor and batches keep
\* being emitted.
C15_TrainingNeverStops ==
  TrainingStarted => pc = "running" /\ ENABLED Next

\* C16: an odd worker count is rejected with flip support on or off: the call
\* never gets past the evenness assertion, where it fails once
\* prefetch_input_data has returned, and no worker, batch queue, example or
\* batch is ever produced.
C16_OddWorkersRejectedWithOrWithoutFlip ==
  \A flip \in BOOLEAN :
    (FLAGS.support_flip = flip /\ FLAGS.num_preprocess_threads % 2 = 1) =>
      /\ pc \notin {"workers", "batch_join", "running", "failed"}
      /\ (pc = "error" /\ Len(shards) >= 1) => "enqueue_ops" \in graph
      /\ graph \cap {"images_and_captions", "batch_and_pad"} = {}
      /\ held = <<>> /\ batch_queue = <<>> /\ batch = <<>>
      /\ NothingRan

\* Without flip support the assertion has failed on an odd worker count.
C16_Witness ==
  /\ ~FLAGS.support_flip /\ FLAGS.num_preprocess_threads % 2 = 1
  /\ Len(shards) >= 1
  /\ pc = "error" /\ "enqueue_ops" \in graph

====
